---------------------------- MODULE Spec2Model ----------------------------
(***************************************************************************)
(* A model of the DraftKings NFL scraper (src/main.go).                    *)
(*                                                                         *)
(*   - parseOdds     : text -> float64, as an operator over character      *)
(*                     sequences;                                          *)
(*   - parseMarkets  : rendered document -> sequence of Market records;    *)
(*   - main / scrapeAndLog / scrapeNFLMarkets / printMarkets : the scrape  *)
(*                     loop, with the ticker, the browser session and the  *)
(*                     deadline as state.                                  *)
(*                                                                         *)
(* Text is a sequence of one-character strings.  The character U+2212 (the *)
(* Unicode minus sign) is written UMinus.  A float64 is a record           *)
(* [neg, mant, scale] standing for (-1)^neg * mant / 10^scale, normalised  *)
(* so that mant has no trailing fractional zero; the sign of zero is kept  *)
(* because Go keeps it (-0.0).                                             *)
(***************************************************************************)
EXTENDS Integers, Sequences, FiniteSets, TLC

VARIABLES
    oddsStr,      \* parseOdds: the argument of the call under test
    oddsPc,       \* parseOdds: "call" before the call, "returned" after it
    oddsRet,      \* parseOdds: the value returned (Zero before the call)
    doc,          \* parseMarkets: the markup of the call under test
    docPc,        \* parseMarkets: "call" before the call, "returned" after it
    docRet,       \* parseMarkets: the records returned
    pc,           \* main: "boot" before the first cycle, "run" inside
                  \*   chromedp.Run, "report" back in scrapeAndLog, "wait"
                  \*   blocked on ticker.C, "exit" when the process has ended
    inFlight,     \* activations of scrapeAndLog that have not returned
    tickerOn,     \* time.NewTicker has been called
    tickIn,       \* time units until the ticker fires next
    tickBuf,      \* ticker.C holds a tick that has not been received
    elapsed,      \* time units spent in chromedp.Run in this cycle
    sessions,     \* browser contexts created and not yet cancelled
    deadlines,    \* timeout contexts created and not yet cancelled
    htmlContent,  \* scrapeNFLMarkets: htmlContent, <<>> until captured
    err,          \* scrapeAndLog: err, NoErr for nil
    markets,      \* scrapeAndLog: markets
    fetches,      \* calls of chromedp.Run in this cycle
    parses,       \* calls of parseMarkets in this cycle
    prints,       \* calls of printMarkets in this cycle
    out,          \* what the last finished cycle wrote to the log / console
    sinceEnd,     \* time units since the last cycle ended
    startGap,     \* sinceEnd at the moment the current cycle started
    cycle         \* number of cycles started, saturating at MaxCycles

oddsVars == <<oddsStr, oddsPc, oddsRet>>
docVars  == <<doc, docPc, docRet>>
loopVars == <<pc, inFlight, tickerOn, tickIn, tickBuf, elapsed, sessions,
              deadlines, htmlContent, err, markets, fetches, parses, prints,
              out, sinceEnd, startGap, cycle>>
vars     == <<oddsVars, docVars, loopVars>>

-----------------------------------------------------------------------------
(* Bounds *)

MaxLen == 4          \* longest text handed to parseOdds
MaxWrappers == 2     \* most game wrappers in a document
MaxButtons == 7      \* most market buttons in a game wrapper
MaxCycles == 3       \* the cycle counter saturates here

-----------------------------------------------------------------------------
(* Program constants, in time units of 10 seconds *)

ScrapeInterval == 3  \* 30 * time.Second
PageTimeout == 12    \* 2 * time.Minute

-----------------------------------------------------------------------------
(* Characters and text *)

UMinus == "u2212"

Digits == {"0", "1", "2", "3", "4", "5", "6", "7", "8", "9"}

WhiteSpace == {" ", "\n"}

DigitVal(c) ==
    CASE c = "0" -> 0 [] c = "1" -> 1 [] c = "2" -> 2 [] c = "3" -> 3
      [] c = "4" -> 4 [] c = "5" -> 5 [] c = "6" -> 6 [] c = "7" -> 7
      [] c = "8" -> 8 [] c = "9" -> 9

RECURSIVE TrimLeft(_)
TrimLeft(s) ==
    IF s # <<>> /\ Head(s) \in WhiteSpace THEN TrimLeft(Tail(s)) ELSE s

RECURSIVE TrimRight(_)
TrimRight(s) ==
    IF s # <<>> /\ s[Len(s)] \in WhiteSpace
    THEN TrimRight(SubSeq(s, 1, Len(s) - 1))
    ELSE s

\* strings.TrimSpace
TrimSpace(s) == TrimRight(TrimLeft(s))

\* strings.HasPrefix with a one-character prefix
HasPrefix(s, c) == s # <<>> /\ Head(s) = c

\* strings.TrimPrefix with a one-character prefix
TrimPrefix(s, c) == IF HasPrefix(s, c) THEN Tail(s) ELSE s

-----------------------------------------------------------------------------
(* float64 values *)

Zero == [neg |-> FALSE, mant |-> 0, scale |-> 0]

RECURSIVE Normalise(_)
Normalise(v) ==
    IF v.mant = 0 THEN [v EXCEPT !.scale = 0]
    ELSE IF v.scale > 0 /\ v.mant % 10 = 0
         THEN Normalise([v EXCEPT !.mant = v.mant \div 10, !.scale = v.scale - 1])
         ELSE v

\* unary minus on a float64
Negate(v) == [v EXCEPT !.neg = ~v.neg]

\* Go's == on float64: -0.0 == 0.0
FloatEq(a, b) ==
    /\ a.mant = b.mant
    /\ a.scale = b.scale
    /\ (a.mant = 0 \/ a.neg = b.neg)

IntFloat(n) ==
    [neg |-> n < 0, mant |-> IF n < 0 THEN -n ELSE n, scale |-> 0]

-----------------------------------------------------------------------------
(* strconv.ParseFloat(s, 64) on the decimal grammar                        *)
(*      [+-]? ( digits [. digits?] | . digits )                            *)
(* (the modelled alphabet has no exponent, hex, underscore, inf or nan).   *)

RECURSIVE CountChar(_, _)
CountChar(s, c) ==
    IF s = <<>> THEN 0
    ELSE (IF Head(s) = c THEN 1 ELSE 0) + CountChar(Tail(s), c)

RECURSIVE CountDigits(_)
CountDigits(s) ==
    IF s = <<>> THEN 0
    ELSE (IF Head(s) \in Digits THEN 1 ELSE 0) + CountDigits(Tail(s))

\* the integer written by the digits of s, the point ignored
RECURSIVE Mantissa(_, _)
Mantissa(s, acc) ==
    IF s = <<>> THEN acc
    ELSE IF Head(s) \in Digits
         THEN Mantissa(Tail(s), 10 * acc + DigitVal(Head(s)))
         ELSE Mantissa(Tail(s), acc)

\* the number of digits after the point
RECURSIVE FracDigits(_)
FracDigits(s) ==
    IF s = <<>> THEN 0
    ELSE IF Head(s) = "." THEN CountDigits(Tail(s))
         ELSE FracDigits(Tail(s))

IsUnsignedDecimal(s) ==
    /\ \A i \in 1..Len(s) : s[i] \in Digits \cup {"."}
    /\ CountChar(s, ".") <= 1
    /\ CountDigits(s) >= 1

ParseFloat(s) ==
    LET signed == s # <<>> /\ Head(s) \in {"+", "-"}
        body   == IF signed THEN Tail(s) ELSE s
        neg    == signed /\ Head(s) = "-"
    IN  IF IsUnsignedDecimal(body)
        THEN [ok  |-> TRUE,
              val |-> Normalise([neg   |-> neg,
                                 mant  |-> Mantissa(body, 0),
                                 scale |-> FracDigits(body)])]
        ELSE [ok |-> FALSE, val |-> Zero]

-----------------------------------------------------------------------------
(* parseOdds *)

\* isMinus := HasPrefix(s, "-") || HasPrefix(s, U+2212)
IsMinus(trimmed) == HasPrefix(trimmed, "-") \/ HasPrefix(trimmed, UMinus)

\* the three TrimPrefix calls, applied one after the other
StripSigns(trimmed) ==
    TrimPrefix(TrimPrefix(TrimPrefix(trimmed, "+"), "-"), UMinus)

parseOdds_AsciiMinusOnly(text) ==
    LET trimmed == TrimSpace(text)
        parsed  == ParseFloat(StripSigns(trimmed))
    IN  IF trimmed = <<>> THEN Zero
        ELSE IF ~parsed.ok THEN Zero
        ELSE IF HasPrefix(trimmed, "-") THEN Negate(parsed.val)
        ELSE parsed.val

parseOdds(text) ==
    LET trimmed == TrimSpace(text)
        parsed  == ParseFloat(StripSigns(trimmed))
    IN  IF trimmed = <<>> THEN Zero
        ELSE IF ~parsed.ok THEN Zero
        ELSE IF IsMinus(trimmed) THEN Negate(parsed.val)
        ELSE parsed.val

-----------------------------------------------------------------------------
(* Rendered markup, as the markup-query library presents it.               *)
(*   document : [malformed, wrappers]; wrappers are the nodes matching     *)
(*              .cb-market__template, in document order                    *)
(*   wrapper  : [labels, buttons]; labels are the texts of the nodes       *)
(*              matching .cb-market__label-inner, buttons the nodes        *)
(*              matching .cb-market__button                                *)
(*   button   : [points, odds]; each the texts of the nodes matching       *)
(*              .cb-market__button-points / .cb-market__button-odds        *)

betTypes == <<"Spread", "Total", "Moneyline">>

RECURSIVE Concat(_)
Concat(texts) ==
    IF texts = <<>> THEN <<>> ELSE Head(texts) \o Concat(Tail(texts))

\* goquery Selection.Text: the texts of all matched nodes, concatenated
SelectionText(nodes) == Concat(nodes)

\* fmt.Sprintf("%s vs %s", teamA, teamB)
GameDescription(teamA, teamB) == teamA \o <<" ", "v", "s", " ">> \o teamB

TeamA_NoTrim(w) == IF Len(w.labels) >= 1 THEN w.labels[1] ELSE <<>>

\* the first Each callback: only label 0 and label 1 are read
TeamA(w) == IF Len(w.labels) >= 1 THEN TrimSpace(w.labels[1]) ELSE <<>>
TeamB(w) == IF Len(w.labels) >= 2 THEN TrimSpace(w.labels[2]) ELSE <<>>

WrapperSkipped_FirstOnly(w) == TeamA(w) = <<>>

\* if teamA == "" || teamB == "" { return }
WrapperSkipped(w) == TeamA(w) = <<>> \/ TeamB(w) = <<>>

SideOf_OffByOne(j) == IF j > 3 THEN "under" ELSE "over"

\* side := "over"; if j >= 3 { side = "under" }     (j is 0-based)
SideOf(j) == IF j >= 3 THEN "under" ELSE "over"

\* betTypes[j%3]                                     (j is 0-based)
BetTypeOf(j) == betTypes[(j % 3) + 1]

\* the second Each callback, on the j-th button (0-based) of a wrapper
ButtonMarket(game, j, button) ==
    [Game    |-> game,
     Side    |-> SideOf(j),
     Odds    |-> parseOdds(SelectionText(button.odds)),
     Line    |-> parseOdds(SelectionText(button.points)),
     BetType |-> BetTypeOf(j)]

\* the records one game wrapper appends to markets
WrapperMarkets(w) ==
    IF WrapperSkipped(w) THEN <<>>
    ELSE [k \in 1..Len(w.buttons) |->
             ButtonMarket(GameDescription(TeamA(w), TeamB(w)), k - 1, w.buttons[k])]

RECURSIVE AllWrapperMarkets(_)
AllWrapperMarkets(ws) ==
    IF ws = <<>> THEN <<>>
    ELSE WrapperMarkets(Head(ws)) \o AllWrapperMarkets(Tail(ws))

parseMarkets(html) ==
    IF html.malformed THEN <<>> ELSE AllWrapperMarkets(html.wrappers)

-----------------------------------------------------------------------------
(* Specification SpecMarkets: parseMarkets applied to every document of up *)
(* to MaxWrappers game wrappers, each with one of the label lists below    *)
(* and up to MaxButtons buttons.                                           *)

Txt_KC == <<"K", "C">>
Txt_SF == <<"S", "F">>

LabelLists ==
    { <<>>,                                          \* no team label
      << Txt_KC >>,                                  \* one team label
      << Txt_KC, Txt_SF >>,                          \* two
      << <<" ">> \o Txt_SF \o <<"\n">>, Txt_KC, <<"X">> >>,  \* three, padded
      << <<" ">>, Txt_SF >>,                         \* first label blank
      << Txt_KC, <<>> >> }                           \* second label empty

\* the texts of the buttons of a wrapper, by position
ButtonTexts ==
    << [points |-> << <<"-", "3", ".", "5">> >>,
        odds   |-> << <<UMinus, "1", "1", "0">> >>],
       [points |-> << <<"4", "5", ".", "5">> >>,
        odds   |-> << <<" ", "-", "1", "0", "5", " ">> >>],
       [points |-> << >>,
        odds   |-> << <<"+", "1", "5", "0">> >>],
       [points |-> << <<"+">>, <<"3", ".", "5">> >>,
        odds   |-> << <<"E", "V", "E", "N">> >>] >>

ButtonLists ==
    { [k \in 1..n |-> ButtonTexts[((k - 1) % Len(ButtonTexts)) + 1]] :
          n \in 0..MaxButtons }

Wrappers == [labels : LabelLists, buttons : ButtonLists]

MalformedDocument == [malformed |-> TRUE, wrappers |-> <<>>]

Documents ==
    {MalformedDocument} \cup
    { [malformed |-> FALSE, wrappers |-> ws] :
          ws \in UNION {[1..n -> Wrappers] : n \in 0..MaxWrappers} }

OddsIdle ==
    /\ oddsStr = <<>>
    /\ oddsPc = "returned"
    /\ oddsRet = Zero

DocIdle ==
    /\ doc = MalformedDocument
    /\ docPc = "returned"
    /\ docRet = <<>>

NoErr == "nil"

NoOutput == [kind |-> "", err |-> NoErr, count |-> 0, groups |-> {}]

LoopAtBoot ==
    /\ pc = "boot"
    /\ inFlight = 0
    /\ tickerOn = FALSE
    /\ tickIn = 0
    /\ tickBuf = FALSE
    /\ elapsed = 0
    /\ sessions = 0
    /\ deadlines = 0
    /\ htmlContent = <<>>
    /\ err = NoErr
    /\ markets = <<>>
    /\ fetches = 0
    /\ parses = 0
    /\ prints = 0
    /\ out = NoOutput
    /\ sinceEnd = 0
    /\ startGap = 0
    /\ cycle = 0

InitMarkets ==
    /\ doc \in Documents
    /\ docPc = "call"
    /\ docRet = <<>>
    /\ OddsIdle
    /\ LoopAtBoot

CallParseMarkets ==
    /\ docPc = "call"
    /\ docPc' = "returned"
    /\ docRet' = parseMarkets(doc)
    /\ UNCHANGED <<doc, oddsVars, loopVars>>

NextMarkets == CallParseMarkets

SpecMarkets == InitMarkets /\ [][NextMarkets]_vars

-----------------------------------------------------------------------------
(* Specification SpecOdds: parseOdds applied to every text up to MaxLen    *)

OddsAlphabet == {" ", "+", "-", UMinus, "0", "1", ".", "a"}

TextsUpTo(alphabet, n) == UNION {[1..k -> alphabet] : k \in 0..n}

OddsExamples ==
    { <<>>,
      <<"+", "1", "5", "0">>,
      <<"-", "1", "1", "0">>,
      <<UMinus, "1", "1", "0">>,
      <<"a", "b", "c">>,
      <<"+", "-", "1", "1", "0">>,
      <<"-", UMinus, "1", "1", "0">> }

OddsInputs == TextsUpTo(OddsAlphabet, MaxLen) \cup OddsExamples

InitOdds ==
    /\ oddsStr \in OddsInputs
    /\ oddsPc = "call"
    /\ oddsRet = Zero
    /\ DocIdle
    /\ LoopAtBoot

CallParseOdds ==
    /\ oddsPc = "call"
    /\ oddsPc' = "returned"
    /\ oddsRet' = parseOdds(oddsStr)
    /\ UNCHANGED <<oddsStr, docVars, loopVars>>

NextOdds == CallParseOdds

SpecOdds == InitOdds /\ [][NextOdds]_vars

-----------------------------------------------------------------------------
(* Specification Spec: the scrape loop.                                    *)
(*                                                                         *)
(* Time passes in chromedp.Run and while main is blocked on ticker.C; the  *)
(* other steps (parsing, printing, returning) take no time.  A receive on  *)
(* ticker.C that finds a tick takes it at once.                            *)

TwoTeams == << Txt_KC, Txt_SF >>

SixButtons == [k \in 1..6 |-> ButtonTexts[((k - 1) % Len(ButtonTexts)) + 1]]

\* the pages the browser may hand back
LoopDocuments ==
    { [malformed |-> FALSE, wrappers |-> <<>>],
      [malformed |-> FALSE,
       wrappers  |-> << [labels |-> TwoTeams, buttons |-> SixButtons] >>],
      [malformed |-> FALSE,
       wrappers  |-> << [labels |-> << Txt_KC >>, buttons |-> SixButtons],
                        [labels |-> << Txt_SF, Txt_KC >>,
                         buttons |-> SubSeq(SixButtons, 1, 2)] >>] }

\* the ways chromedp.Run fails before the deadline
FetchErrors == {"navigate", "capture"}

DeadlineExceeded == "deadline"

Min(a, b) == IF a < b THEN a ELSE b

MainBlockedOnTicker_Async == pc # "boot"

\* for range ticker.C: main is at the receive only between two cycles
MainBlockedOnTicker == pc = "wait"

TickAvailable_Always == TRUE

\* the receive on ticker.C returns only when the channel holds a tick
TickAvailable == tickBuf

CancelsRun_SuccessOnly(e) == e = NoErr

\* defer cancel() (twice): the cancels run on every return of
\* scrapeNFLMarkets
CancelsRun(e) == TRUE

PrintsMarkets_NoReturn(e) == TRUE

\* scrapeAndLog: printMarkets is reached only past the err != nil return
PrintsMarkets(e) == e = NoErr

ReturnPc_FatalOnError(e) == IF e # NoErr THEN "exit" ELSE "wait"

\* scrapeAndLog returns to main on both paths, and main goes (back) to the
\* receive on ticker.C
ReturnPc(e) == "wait"

\* printMarkets: gameMap, the markets of each game in the order found
GameMap(ms) ==
    { [game  |-> g,
       lines |-> LET OfGame(m) == m.Game = g IN SelectSeq(ms, OfGame)] :
          g \in {ms[k].Game : k \in 1..Len(ms)} }

\* what printMarkets writes
printMarkets(ms) ==
    IF Len(ms) = 0
    THEN [kind |-> "No markets found", err |-> NoErr, count |-> 0, groups |-> {}]
    ELSE [kind |-> "Found Markets", err |-> NoErr, count |-> Len(ms),
          groups |-> GameMap(ms)]

\* what scrapeAndLog writes on the error path
ErrorLog(e) ==
    [kind |-> "Error scraping markets", err |-> e, count |-> 0, groups |-> {}]

InitLoop ==
    /\ LoopAtBoot
    /\ OddsIdle
    /\ DocIdle

\* scrapeAndLog is entered and scrapeNFLMarkets runs up to chromedp.Run
BeginScrape ==
    /\ inFlight' = inFlight + 1
    /\ sessions' = sessions + 1
    /\ deadlines' = deadlines + 1
    /\ elapsed' = 0
    /\ htmlContent' = <<>>
    /\ err' = NoErr
    /\ markets' = <<>>
    /\ fetches' = 1
    /\ parses' = 0
    /\ prints' = 0
    /\ startGap' = sinceEnd
    /\ cycle' = Min(cycle + 1, MaxCycles)
    /\ pc' = "run"
    /\ UNCHANGED <<out, sinceEnd>>

\* main: the first scrapeAndLog(), before the ticker exists
MainStart ==
    /\ pc = "boot"
    /\ BeginScrape
    /\ UNCHANGED <<tickerOn, tickIn, tickBuf, oddsVars, docVars>>

\* main: for range ticker.C delivers a tick and the body calls scrapeAndLog()
ReceiveTick ==
    /\ MainBlockedOnTicker
    /\ TickAvailable
    /\ tickBuf' = FALSE
    /\ BeginScrape
    /\ UNCHANGED <<tickerOn, tickIn, oddsVars, docVars>>

\* one time unit passes
Advance ==
    /\ pc \in {"run", "wait"}
    /\ pc = "run" => elapsed < PageTimeout
    /\ pc = "wait" => ~tickBuf
    /\ elapsed' = IF pc = "run" THEN elapsed + 1 ELSE elapsed
    /\ sinceEnd' = IF pc = "wait" THEN sinceEnd + 1 ELSE sinceEnd
    /\ IF tickerOn
       THEN /\ tickIn' = IF tickIn = 1 THEN ScrapeInterval ELSE tickIn - 1
            /\ tickBuf' = (tickBuf \/ tickIn = 1)
       ELSE UNCHANGED <<tickIn, tickBuf>>
    /\ UNCHANGED <<pc, inFlight, tickerOn, sessions, deadlines, htmlContent,
                   err, markets, fetches, parses, prints, out, startGap,
                   cycle, oddsVars, docVars>>

\* scrapeNFLMarkets returns (the deferred cancels included)
ReturnFromScrape(e) ==
    /\ sessions' = IF CancelsRun(e) THEN sessions - 1 ELSE sessions
    /\ deadlines' = IF CancelsRun(e) THEN deadlines - 1 ELSE deadlines
    /\ err' = e
    /\ pc' = "report"
    /\ UNCHANGED <<inFlight, tickerOn, tickIn, tickBuf, elapsed, fetches,
                   prints, out, sinceEnd, startGap, cycle, oddsVars, docVars>>

\* chromedp.Run returns nil within the time budget; the markup is parsed
RunOk(page) ==
    /\ pc = "run"
    /\ elapsed < PageTimeout
    /\ htmlContent' = <<page>>
    /\ markets' = parseMarkets(page)
    /\ parses' = parses + 1
    /\ ReturnFromScrape(NoErr)

\* chromedp.Run returns an error: a failed action, or the deadline
RunFail(e) ==
    /\ pc = "run"
    /\ IF elapsed < PageTimeout THEN e \in FetchErrors ELSE e = DeadlineExceeded
    /\ UNCHANGED <<htmlContent, markets, parses>>
    /\ ReturnFromScrape(e)

\* scrapeAndLog logs the error or prints the markets, and returns to main,
\* which creates the ticker after the first cycle
Report ==
    /\ pc = "report"
    /\ IF PrintsMarkets(err)
       THEN /\ out' = printMarkets(markets)
            /\ prints' = prints + 1
       ELSE /\ out' = ErrorLog(err)
            /\ UNCHANGED prints
    /\ inFlight' = inFlight - 1
    /\ sinceEnd' = 0
    /\ pc' = ReturnPc(err)
    /\ IF tickerOn
       THEN UNCHANGED <<tickerOn, tickIn>>
       ELSE /\ tickerOn' = TRUE
            /\ tickIn' = ScrapeInterval
    /\ UNCHANGED <<tickBuf, elapsed, sessions, deadlines, htmlContent, err,
                   markets, fetches, parses, startGap, cycle, oddsVars,
                   docVars>>

Next ==
    \/ MainStart
    \/ ReceiveTick
    \/ Advance
    \/ \E page \in LoopDocuments : RunOk(page)
    \/ \E e \in FetchErrors \cup {DeadlineExceeded} : RunFail(e)
    \/ Report

Spec == InitLoop /\ [][Next]_vars

\* the scheduler runs main's goroutine and time goes on
FairSpec == Spec /\ WF_vars(Next)

-----------------------------------------------------------------------------
(* Properties of parseOdds (checked under SpecOdds)                        *)

\* The reading of parseOdds that removes exactly one sign prefix: after
\* trimming, one leading '+', '-' or U+2212 is removed if present, what
\* follows is parsed as it stands (0.0 when it does not parse), and the
\* value is negated exactly when the removed prefix was '-' or U+2212.
OnePrefixParse(text) ==
    LET trimmed == TrimSpace(text)
        hasSign == trimmed # <<>> /\ Head(trimmed) \in {"+", "-", UMinus}
        rest    == IF hasSign THEN Tail(trimmed) ELSE trimmed
        parsed  == ParseFloat(rest)
        value   == IF parsed.ok THEN parsed.val ELSE Zero
    IN  IF hasSign /\ Head(trimmed) # "+" THEN Negate(value) ELSE value

\* C2: for every input text parseOdds removes exactly one of the three sign
\* prefixes, leaves every later character (a second sign included) in place
\* for numeric parsing, and negates exactly when the removed prefix was '-'
\* or U+2212.
C2_ExactlyOnePrefix ==
    oddsPc = "returned" => FloatEq(oddsRet, OnePrefixParse(oddsStr))

Float64Values == [neg : BOOLEAN, mant : Nat, scale : Nat]

\* C3: parseOdds always returns a number; it is 0.0 for an empty or
\* whitespace-only text and 0.0 when the text left after sign stripping does
\* not parse; "" and "abc" give 0.0, "+150" gives 150, "-110" and
\* U+2212 "110" give -110.
C3_SilentFallback ==
    oddsPc = "returned" =>
        /\ oddsRet \in Float64Values
        /\ (\A i \in 1..Len(oddsStr) : oddsStr[i] \in WhiteSpace) => oddsRet = Zero
        /\ ~ParseFloat(StripSigns(TrimSpace(oddsStr))).ok => oddsRet = Zero
        /\ oddsStr = <<>> => oddsRet = IntFloat(0)
        /\ oddsStr = <<"a", "b", "c">> => oddsRet = IntFloat(0)
        /\ oddsStr = <<"+", "1", "5", "0">> => oddsRet = IntFloat(150)
        /\ oddsStr = <<"-", "1", "1", "0">> => oddsRet = IntFloat(-110)
        /\ oddsStr = <<UMinus, "1", "1", "0">> => oddsRet = IntFloat(-110)

\* a text with a sign and letters has been parsed to 0.0
C3_Witness ==
    /\ oddsPc = "returned"
    /\ oddsStr = <<UMinus, "a", "1">>
    /\ oddsRet = Zero

-----------------------------------------------------------------------------
(* Properties of parseMarkets (checked under SpecMarkets)                  *)

ExpectedBetTypes ==
    <<"Spread", "Total", "Moneyline", "Spread", "Total", "Moneyline">>

ExpectedSides == <<"over", "over", "over", "under", "under", "under">>

\* a single wrapper with two named teams and exactly six buttons
SixButtonDocument ==
    /\ ~doc.malformed
    /\ Len(doc.wrappers) = 1
    /\ Len(doc.wrappers[1].labels) >= 2
    /\ TrimSpace(doc.wrappers[1].labels[1]) # <<>>
    /\ TrimSpace(doc.wrappers[1].labels[2]) # <<>>
    /\ Len(doc.wrappers[1].buttons) = 6

\* C1: one wrapper, two named team labels, six buttons: exactly six records
\* in document order, all with game "{teamA} vs {teamB}", record j with bet
\* type [Spread, Total, Moneyline][j mod 3], side over for j < 3 and under
\* for j >= 3, and line/odds the parseOdds of the button's points/odds text.
C1_SixButtonLayout ==
    (docPc = "returned" /\ SixButtonDocument) =>
        LET w == doc.wrappers[1] IN
        /\ Len(docRet) = 6
        /\ \A k \in 1..6 :
              /\ docRet[k].Game = TrimSpace(w.labels[1]) \o <<" ", "v", "s", " ">>
                                     \o TrimSpace(w.labels[2])
              /\ docRet[k].BetType = ExpectedBetTypes[k]
              /\ docRet[k].Side = ExpectedSides[k]
              /\ docRet[k].Line = parseOdds(Concat(w.buttons[k].points))
              /\ docRet[k].Odds = parseOdds(Concat(w.buttons[k].odds))

C1_Witness ==
    /\ docPc = "returned"
    /\ SixButtonDocument
    /\ Len(docRet) = 6
    /\ docRet[4].Side = "under"
    /\ docRet[4].BetType = "Spread"
    /\ docRet[3].Line = Zero

RECURSIVE ButtonTotal(_)
ButtonTotal(ws) ==
    IF ws = <<>> THEN 0 ELSE Len(Head(ws).buttons) + ButtonTotal(Tail(ws))

FewLabels(w) == Len(w.labels) < 2

HasTwoLabels(w) == ~FewLabels(w)

\* C4: a wrapper with fewer than two team labels contributes no record,
\* however many buttons it has, and the result is the one the document
\* without those wrappers gives.
C4_FewLabelsSkipped ==
    docPc = "returned" =>
        LET kept == SelectSeq(doc.wrappers, HasTwoLabels) IN
        /\ docRet = parseMarkets([doc EXCEPT !.wrappers = kept])
        /\ Len(docRet) <= ButtonTotal(kept)
        /\ (\A i \in 1..Len(doc.wrappers) : FewLabels(doc.wrappers[i]))
               => docRet = <<>>

C4_Witness ==
    /\ docPc = "returned"
    /\ Len(doc.wrappers) = 2
    /\ Len(doc.wrappers[1].labels) = 1
    /\ Len(doc.wrappers[1].buttons) = 6
    /\ Len(doc.wrappers[2].buttons) = 6
    /\ Len(docRet) = 6
    /\ docRet[6].Side = "under"

\* both of the first two labels have text left after trimming
NamedWrapper(w) ==
    /\ Len(w.labels) >= 2
    /\ TrimSpace(w.labels[1]) # <<>>
    /\ TrimSpace(w.labels[2]) # <<>>

\* C10: every record's game is "{teamA} vs {teamB}" with both trimmed names
\* non-empty; a wrapper whose first or second label is missing or blank
\* contributes no record, whatever buttons it has.
C10_GameNamesNonEmpty ==
    docPc = "returned" =>
        /\ \A k \in 1..Len(docRet) :
              \E i \in 1..Len(doc.wrappers) :
                  /\ NamedWrapper(doc.wrappers[i])
                  /\ docRet[k].Game =
                        TrimSpace(doc.wrappers[i].labels[1])
                            \o <<" ", "v", "s", " ">>
                            \o TrimSpace(doc.wrappers[i].labels[2])
        /\ Len(docRet) = ButtonTotal(SelectSeq(doc.wrappers, NamedWrapper))

C10_Witness ==
    /\ docPc = "returned"
    /\ Len(doc.wrappers) = 2
    /\ doc.wrappers[1].labels = << <<" ">>, Txt_SF >>
    /\ Len(doc.wrappers[1].buttons) = 3
    /\ doc.wrappers[2].labels = << Txt_KC, <<>> >>
    /\ Len(doc.wrappers[2].buttons) = 2
    /\ docRet = <<>>

-----------------------------------------------------------------------------
(* Properties of the scrape loop (checked under Spec and FairSpec)         *)

CycleInFlight == pc \in {"run", "report"}

\* C5: at most one scrapeAndLog cycle is in flight in every reachable state,
\* however long a cycle runs compared with the scrape interval.
C5_CyclesNeverOverlap ==
    /\ inFlight \in {0, 1}
    /\ inFlight = 1 <=> CycleInFlight

\* a cycle has outlasted the interval, a tick is waiting, and still only that
\* cycle is in flight
C5_Witness ==
    /\ pc = "run"
    /\ cycle >= 2
    /\ elapsed > ScrapeInterval
    /\ tickBuf
    /\ inFlight = 1

\* C6: no cycle other than the first begins less than one full scrape
\* interval after the previous cycle ended.
C6_FullIntervalAfterCompletion ==
    (cycle >= 2 /\ CycleInFlight) => startGap >= ScrapeInterval

\* C6, amended: the second cycle begins exactly one interval after the first
\* ended; every later cycle begins at the first tick it can receive, between
\* zero and one interval after the previous cycle ended, and main never
\* waits longer than one interval.
C6_NextCycleOnTick ==
    /\ (cycle >= 2 /\ CycleInFlight) => startGap \in 0..ScrapeInterval
    /\ (cycle = 2 /\ CycleInFlight) => startGap = ScrapeInterval
    /\ pc = "wait" => sinceEnd \in 0..ScrapeInterval
    /\ (pc = "wait" /\ tickBuf /\ cycle = 1) => sinceEnd = ScrapeInterval

\* a cycle that began the moment the previous one ended
C6_Witness ==
    /\ pc = "run"
    /\ cycle >= 3
    /\ startGap = 0

\* a cycle as scrapeAndLog starts it: nothing of an earlier cycle is left
FreshCycle ==
    /\ pc = "run"
    /\ inFlight = 1
    /\ elapsed = 0
    /\ htmlContent = <<>>
    /\ err = NoErr
    /\ markets = <<>>
    /\ fetches = 1
    /\ parses = 0
    /\ prints = 0
    /\ sessions = 1
    /\ deadlines = 1

OutputKinds ==
    {"Error scraping markets", "No markets found", "Found Markets"}

\* C7: after any cycle (fetch failed, no records, or success) the loop is
\* back at the ticker and, time going on, starts another cycle with the same
\* steps, no later than one interval on, with nothing carried over.
C7_LoopNeverStops ==
    /\ \A k \in OutputKinds :
          (pc = "wait" /\ out.kind = k) ~> FreshCycle
    /\ [](pc # "exit")
    /\ [](pc = "wait" => sinceEnd <= ScrapeInterval)

\* a cycle started after a cycle whose fetch failed
C7_Witness ==
    /\ FreshCycle
    /\ cycle >= 2
    /\ out.kind = "Error scraping markets"

\* C8: when the fetch fails the cycle is skipped: no records, no parse, no
\* market report, one fetch only, and the error is logged by scrapeAndLog
\* and goes no further.
C8_FetchErrorSkipsCycle ==
    err # NoErr =>
        /\ markets = <<>>
        /\ htmlContent = <<>>
        /\ parses = 0
        /\ prints = 0
        /\ fetches = 1
        /\ pc \in {"report", "wait"}
        /\ pc = "wait" =>
              /\ out = [kind |-> "Error scraping markets", err |-> err,
                        count |-> 0, groups |-> {}]
              /\ inFlight = 0

\* the deadline expired and the cycle ended with the error logged
C8_Witness ==
    /\ pc = "wait"
    /\ err = DeadlineExceeded
    /\ out.kind = "Error scraping markets"
    /\ prints = 0

\* C9: the session and the deadline of a cycle are released before the
\* cycle ends on every path; between cycles none is held, and at most one
\* session is live at any time.
C9_SessionReleased ==
    /\ sessions \in {0, 1}
    /\ deadlines \in {0, 1}
    /\ pc = "run" => (sessions = 1 /\ deadlines = 1)
    /\ pc # "run" => (sessions = 0 /\ deadlines = 0)

\* between cycles, after a fetch error
C9_Witness ==
    /\ pc = "wait"
    /\ cycle >= 2
    /\ err \in FetchErrors
    /\ sessions = 0
    /\ deadlines = 0

=============================================================================
